---- MODULE Spec2Model ----
(***************************************************************************)
(* Model of the dubora pipeline kernel: the phase registry                 *)
(* (pipeline/phases/__init__.py), the manifest and runner                  *)
(* (pipeline/core, described in spec.md 4.3-4.5), the phase                *)
(* implementations' write behaviour (pipeline/phases/*.py), the CLI        *)
(* commands run and bless (cli.py), the CalDoc editor endpoint             *)
(* (web/api/asr_model.py) and the stream controller (web/api/pipeline.py). *)
(***************************************************************************)
EXTENDS Integers, Sequences, FiniteSets, TLC

(***************************************************************************)
(* Bounds of the model.                                                    *)
(***************************************************************************)
\* number of distinct complete file contents a phase or a human can write
MaxContent == 2
\* number of `run` invocations in one behaviour
MaxRuns == 2
\* number of editor saves and file replacements in one behaviour
MaxExternal == 1
\* run-stream requests and runner processes of the stream controller
MaxStreams == 3
MaxProcs == 3

MaxBumps == 1

MaxBlessings == 1

MaxLines == 3

(***************************************************************************)
(* Phase registry: phases/__init__.py                                      *)
(***************************************************************************)
Phase(name, version, requires, provides) ==
    [name |-> name, version |-> version, requires |-> requires, provides |-> provides]

build_phases(asr_use_vocals) ==
    LET asr_input == IF asr_use_vocals THEN "extract.vocals" ELSE "extract.audio"
    IN << Phase("extract", "1.0.0", <<>>,
                <<"extract.audio", "extract.vocals", "extract.accompaniment">>),
          Phase("asr", "1.0.0", <<asr_input>>, <<"asr.asr_result">>),
          Phase("parse", "1.1.0", <<"asr.asr_result">>, <<"dub.dub_manifest">>),
          Phase("reseg", "1.0.0", <<"dub.dub_manifest", "asr.asr_result">>,
                <<"dub.dub_manifest">>),
          Phase("mt", "1.1.0", <<"dub.dub_manifest">>, <<"mt.mt_input", "mt.mt_output">>),
          Phase("align", "1.1.0", <<"mt.mt_output", "extract.audio">>,
                <<"subs.en_srt", "dub.dub_manifest">>),
          Phase("tts", "1.1.0", <<"dub.dub_manifest">>,
                <<"tts.segments_dir", "tts.segments_index", "tts.report",
                  "tts.voice_assignment">>),
          Phase("mix", "2.1.0", <<"dub.dub_manifest", "tts.segments_dir", "tts.report">>,
                <<"mix.audio">>),
          Phase("burn", "1.0.0", <<"mix.audio", "subs.en_srt">>, <<"burn.video">>) >>

\* PipelineConfig.asr_use_vocals defaults to False (config/settings.py)
ALL_PHASES == build_phases(FALSE)

GATES == << [key |-> "source_review", after |-> "reseg"],
            [key |-> "translation_review", after |-> "align"] >>

Range(s) == {s[i] : i \in DOMAIN s}

PhaseIdx == DOMAIN ALL_PHASES
PhaseNames == {ALL_PHASES[i].name : i \in PhaseIdx}
Keys == UNION {Range(ALL_PHASES[i].provides) : i \in PhaseIdx}
GateKeys == {GATES[i].key : i \in DOMAIN GATES}

IndexOf(name) == CHOOSE i \in PhaseIdx : ALL_PHASES[i].name = name
Requires(i) == Range(ALL_PHASES[i].requires)
Provides(i) == Range(ALL_PHASES[i].provides)

\* a lookup keyed by the gate's own key instead of its after phase
GATE_AFTER_byKey(name) == {GATES[i].key : i \in {j \in DOMAIN GATES : GATES[j].key = name}}

\* after_phase -> gate lookup; the empty set when no gate follows the phase
GATE_AFTER(name) == {GATES[i].key : i \in {j \in DOMAIN GATES : GATES[j].after = name}}

\* the registry index of the phase a gate follows
GateAfterIdx(g) == IndexOf(GATES[CHOOSE i \in DOMAIN GATES : GATES[i].key = g].after)

(***************************************************************************)
(* Files, fingerprints and manifest records                                *)
(***************************************************************************)
\* content of a file: Absent, a complete content 1..MaxContent, or Torn (the
\* bytes left by a write that was interrupted or belongs to a failed call)
Absent == 0
Torn == -1
Contents == 1..MaxContent

\* the allocated path of a key is a function of the key alone, so the three
\* producers of dub.dub_manifest share one file (the CalDoc, dub.json)
CalDoc == "dub.dub_manifest"

\* fingerprints.hash_path: SHA-256 of the bytes, taken as injective
NoFp == <<>>
hash_path(content) == <<"sha256", content>>

\* fingerprint of fingerprints (spec 4.1 combined)
combined(entries, extras) == [entries |-> entries, extras |-> extras]

NoArtifact == [fingerprint |-> NoFp, producer |-> <<>>]
EmptyFn == [k \in {} |-> NoFp]
NoRecord == [status |-> "none", version |-> "", input_fingerprint |-> NoFp,
             artifacts |-> EmptyFn, skipped |-> FALSE, error |-> "none"]

\* errors a phase returns in PhaseResult.error (ErrorInfo.type)
Errors == {"FileNotFoundError", "RuntimeError"}

VARIABLES
    disk,          \* key -> content of the file at the key's allocated path
    artifacts,     \* manifest: key -> artifact record (NoArtifact when nil)
    phases,        \* manifest: phase index -> PhaseRecord (NoRecord when nil)
    gates,         \* manifest: gate key -> "pending" | "open" | "passed"
    pc,            \* runner process: "idle" | "ready" | "invoke"
    plan,          \* ExecutionPlan of the live call: [from, to, first, force]
    cur,           \* index of the phase the runner is at
    input_fp,      \* input fingerprint computed for the phase being invoked
    runs,          \* number of run calls so far
    ext,           \* number of external operations so far
    invoked,       \* phases whose implementation was invoked in this call
    skipped_now,   \* phases skipped in this call
    outcome,       \* how the latest call ended
    written,       \* keys whose file the latest invocation wrote
    clean,         \* X when the latest call was a completed run --to X and
                   \* nothing changed since, else 0
    repeat,        \* the live or latest call repeats a completed run unchanged
    edited,        \* the CalDoc holds an editor save made on unchanged upstream
    owed,          \* phases that a modified file obliges to re-execute
    gates_at_start,\* the gate table when the live or latest call started
    prior          \* status of the record the runner found for the phase it invokes

\* stream controller (web/api/pipeline.py), for one drama/episode lock_key
VARIABLES
    _running,      \* the entry of lock_key in _running: a process, or 0
    proc,          \* process -> "unborn" | "live" | "exited" | "killed"
    handler,       \* run-stream request -> position of its coroutine
    handler_proc,  \* run-stream request -> the process it spawned, or 0
    response,      \* run-stream request -> HTTP status, or 0
    blocking,      \* the process a blocking run request waits for, or 0
    events,        \* run-stream request -> the SSE events its generator yielded
    returncode,    \* process -> the code it exited with by itself, NoExit before
    cancelled      \* processes a cancel request killed while they ran

runner_vars == <<disk, artifacts, phases, gates, pc, plan, cur, input_fp, runs, ext,
                 invoked, skipped_now, outcome, written, clean, repeat, edited, owed,
                 gates_at_start, prior>>

stream_vars == <<_running, proc, handler, handler_proc, response, blocking, events,
                 returncode, cancelled>>

\* the CalDoc file under its writers (schema/asr_model.py, web/api/asr_model.py)
VARIABLES
    rev,           \* history.rev of the CalDoc file on disk, 0 when there is no file
    loaded,        \* editor client -> history.rev of the document it holds, 0 for none
    saves          \* number of saves of the CalDoc file so far

doc_vars == <<rev, loaded, saves>>

\* one invocation of the command line (cli.main)
VARIABLES
    cli_pc,         \* main: "args" | "loop" | "exited"
    command,        \* args.command: "none" | "run" | "bless"
    config,         \* PipelineConfig.asr_use_vocals of the invocation
    video_paths,    \* the videos expand_video_pattern matched, numbered 1..n
    idx,            \* position of the loop over video_paths
    failed,         \* the list main collects failures in
    attempted,      \* videos the operation was called for
    op_failed,      \* videos for which the operation failed
    exit_code,      \* exit status of the process, NoExit while it runs
    registry        \* the phase list run_one last built, <<>> for none

cli_vars == <<cli_pc, command, config, video_paths, idx, failed, attempted,
              op_failed, exit_code, registry>>

\* the CalDoc under an editor session (schema/asr_model.py)
VARIABLES
    segments,      \* AsrModel.segments of the document being edited
    stored,        \* segments of the document the last PUT stored
    fingerprint,   \* fingerprint.value of the stored document
    edits,         \* field edits since the last PUT
    puts           \* number of PUTs so far

edit_vars == <<segments, stored, fingerprint, edits, puts>>

\* a workspace after a full run to burn, under version bumps and bless
VARIABLES
    bumped,        \* phases whose registered version changed since their record
    bump_run,      \* the value of runs when the latest version changed
    blessings      \* number of bless calls that found every artifact unchanged

warm_vars == <<bumped, bump_run, blessings>>

\* the CalDoc file (dub.json) under its writers
VARIABLES
    file,          \* the document in the file: [exists, segments, fingerprint]
    held,          \* the AsrModel a phase has read and not yet written back
    client,        \* the document the editor holds: [loaded, segments]
    writes         \* number of writes of the file so far

save_vars == <<file, held, client, writes>>

\* the stdout pipe between a runner process and its stream (web/api/pipeline.py)
VARIABLES
    stdout,        \* process -> the lines it has written
    nread          \* run-stream request -> number of lines its read loop consumed

relay_vars == <<stdout, nread>>

aux_vars == <<doc_vars, cli_vars, edit_vars, warm_vars, save_vars, relay_vars>>

vars == <<runner_vars, stream_vars, aux_vars>>

(***************************************************************************)
(* Planner and runner (spec 4.4, 4.5), called by cli.run_one               *)
(***************************************************************************)
\* arguments of `run`: <<from, to>> as registry indices, 0 for no --from.
\* cli run --to reseg, cli run --to burn, the web endpoints' default
\* --from mt --to burn, cli run --from tts --to burn and
\* cli run --from reseg --to reseg
RunArgs == {<<0, IndexOf("reseg")>>, <<0, IndexOf("burn")>>,
            <<IndexOf("mt"), IndexOf("burn")>>, <<IndexOf("tts"), IndexOf("burn")>>,
            <<IndexOf("reseg"), IndexOf("reseg")>>}

\* the registered version of a phase: the one in the registry, or the one a
\* later release of the phase registers
RegisteredVersion(i) == IF i \in bumped THEN "bumped" ELSE ALL_PHASES[i].version

\* spec 4.4 step 5: the phases later in the list that a phase of S feeds,
\* directly or through phases already in the set
RECURSIVE DownstreamLater(_, _)
DownstreamLater(S, n) ==
    IF n = 0 THEN S
    ELSE DownstreamLater(S \cup {j \in PhaseIdx :
                                    \E i \in S : i < j /\ Requires(j) \cap Provides(i) # {}},
                         n - 1)

\* the plan when a version mismatch forces the mismatched phase alone
ExecutionPlan_noCascade(from, to) ==
    [from |-> from, to |-> to,
     first |-> IF from = 0 THEN 1 ELSE from,
     force |-> (IF from = 0 THEN {} ELSE {from}) \cup
               {i \in PhaseIdx : phases[i].version \notin {"", RegisteredVersion(i)}}]

\* spec 4.4: phases = L[start_idx .. end_idx]; force = the phases whose
\* recorded version differs from the registered one with the phases downstream
\* of them, and `from` alone (spec 9: "only P, let fingerprints cascade")
ExecutionPlan(from, to) ==
    [from |-> from, to |-> to,
     first |-> IF from = 0 THEN 1 ELSE from,
     force |-> (IF from = 0 THEN {} ELSE {from}) \cup
               DownstreamLater({i \in PhaseIdx :
                                   phases[i].version \notin {"", RegisteredVersion(i)}},
                               Len(ALL_PHASES))]

NoPlan == [from |-> 0, to |-> 0, first |-> 1, force |-> {}]

\* spec 4.5 step 1: required keys with no artifact record
MissingInputs(i) == {k \in Requires(i) : artifacts[k] = NoArtifact}

\* spec 4.5 step 2: recompute the fingerprint of every required artifact on
\* disk and update the record where it differs
RefreshUpstream(i) ==
    [k \in Keys |->
        IF k \in Requires(i) /\ artifacts[k] # NoArtifact /\ disk[k] # Absent
        THEN [artifacts[k] EXCEPT !.fingerprint = hash_path(disk[k])]
        ELSE artifacts[k]]

\* spec 4.5 step 3: combined over the ordered requires, plus the version
InputFingerprint(i, arts) ==
    combined([j \in DOMAIN ALL_PHASES[i].requires |->
                 <<ALL_PHASES[i].requires[j],
                   arts[ALL_PHASES[i].requires[j]].fingerprint>>],
             <<RegisteredVersion(i)>>)

\* a skip decision that does not compare the input fingerprint
ShouldSkip_noInputFingerprint(i, arts) ==
    /\ i \notin plan.force
    /\ phases[i].status = "succeeded"
    /\ phases[i].version = RegisteredVersion(i)
    /\ \A k \in DOMAIN phases[i].artifacts :
          /\ disk[k] # Absent
          /\ arts[k].fingerprint = hash_path(disk[k])

\* spec 4.5 step 4: the skip decision
ShouldSkip(i, arts) ==
    /\ i \notin plan.force
    /\ phases[i].status = "succeeded"
    /\ phases[i].version = RegisteredVersion(i)
    /\ phases[i].input_fingerprint = InputFingerprint(i, arts)
    /\ \A k \in DOMAIN phases[i].artifacts :
          /\ disk[k] # Absent
          /\ arts[k].fingerprint = hash_path(disk[k])

\* spec 4.5 step 10 and the end of the plan: what the runner does after
\* phase i was committed or skipped
GateStops(i) == \E g \in GATE_AFTER(ALL_PHASES[i].name) : gates[g] # "passed"

GateAndAdvance(i) ==
    /\ gates' = [g \in GateKeys |->
                    IF g \in GATE_AFTER(ALL_PHASES[i].name) /\ gates[g] = "pending"
                    THEN "open" ELSE gates[g]]
    /\ IF GateStops(i)
       THEN /\ pc' = "idle"
            /\ outcome' = "gate"
            /\ cur' = cur
            /\ clean' = IF plan.from = 0 /\ i = plan.to THEN plan.to ELSE 0
       ELSE IF i = plan.to
       THEN /\ pc' = "idle"
            /\ outcome' = "completed"
            /\ cur' = cur
            /\ clean' = IF plan.from = 0 THEN plan.to ELSE 0
       ELSE /\ pc' = "ready"
            /\ outcome' = outcome
            /\ cur' = i + 1
            /\ clean' = clean

\* cli.run_one -> PhaseRunner.run_pipeline(phases, ctx, to_phase, from_phase)
StartRun(from, to) ==
    /\ pc = "idle"
    /\ runs < MaxRuns
    /\ pc' = "ready"
    /\ plan' = ExecutionPlan(from, to)
    /\ cur' = plan'.first
    /\ runs' = runs + 1
    /\ invoked' = {}
    /\ skipped_now' = {}
    /\ written' = {}
    /\ outcome' = "running"
    /\ repeat' = (from = 0 /\ clean # 0 /\ clean = to)
    /\ clean' = 0
    /\ gates_at_start' = gates
    /\ prior' = "none"
    /\ UNCHANGED <<stream_vars, aux_vars>>
    /\ UNCHANGED <<disk, artifacts, phases, gates, input_fp, ext, edited, owed>>

\* spec 4.5 step 1: MissingInput stops the runner
MissingInput ==
    /\ pc = "ready"
    /\ MissingInputs(cur) # {}
    /\ cur # plan.first
    /\ pc' = "idle"
    /\ outcome' = "missing_input"
    /\ UNCHANGED <<stream_vars, aux_vars>>
    /\ UNCHANGED <<gates_at_start, prior, disk, artifacts, phases, gates, plan, cur, input_fp, runs, ext,
                   invoked, skipped_now, written, clean, repeat, edited, owed>>

\* a runner that resolves no inputs before it decides to skip or invoke
CanResolve_unchecked(i) == TRUE

\* spec 4.5 step 1: the first phase of the plan is exempt from the check
CanResolve(i) == MissingInputs(i) = {} \/ i = plan.first

\* spec 4.5 steps 2-4, skip branch
SkipPhase ==
    /\ pc = "ready"
    /\ CanResolve(cur)
    /\ ShouldSkip(cur, RefreshUpstream(cur))
    /\ artifacts' = RefreshUpstream(cur)
    /\ phases' = [phases EXCEPT ![cur].skipped = TRUE]
    /\ skipped_now' = skipped_now \cup {cur}
    /\ GateAndAdvance(cur)
    /\ UNCHANGED <<stream_vars, aux_vars>>
    /\ UNCHANGED <<gates_at_start, prior, disk, plan, input_fp, runs, ext, invoked, written, repeat,
                   edited, owed>>

\* a runner that persists nothing before the invocation
RunningRecord_unsaved(i) == phases[i]

\* spec 4.5 step 6: the PhaseRecord persisted before the invocation
RunningRecord(i) == [phases[i] EXCEPT !.status = "running", !.skipped = FALSE]

\* spec 4.5 steps 2-6, run branch: status = running is persisted before the
\* implementation is invoked
PreRun ==
    /\ pc = "ready"
    /\ CanResolve(cur)
    /\ ~ShouldSkip(cur, RefreshUpstream(cur))
    /\ artifacts' = RefreshUpstream(cur)
    /\ input_fp' = InputFingerprint(cur, RefreshUpstream(cur))
    /\ phases' = [phases EXCEPT ![cur] = RunningRecord(cur)]
    /\ invoked' = invoked \cup {cur}
    /\ owed' = owed \ {cur}
    /\ edited' = (edited /\ cur \notin {IndexOf("extract"), IndexOf("asr")})
    /\ written' = {}
    /\ prior' = phases[cur].status
    /\ pc' = "invoke"
    /\ UNCHANGED <<stream_vars, aux_vars>>
    /\ UNCHANGED <<gates_at_start, disk, gates, plan, cur, runs, ext, skipped_now, outcome, clean,
                   repeat>>

(***************************************************************************)
(* Phase implementations (pipeline/phases/*.py) as far as the runner sees  *)
(* them: which files they read and write and what they return              *)
(***************************************************************************)
\* files an implementation opens: those of its inputs; align also reads the
\* CalDoc directly from disk (align.py, "dub.json 直接从磁盘读取")
Reads(i) ==
    Requires(i) \cup (IF ALL_PHASES[i].name = "align" THEN {CalDoc} ELSE {})

\* the sets of keys a succeeding invocation may have written: every phase
\* writes all its outputs, except reseg, which returns succeeded without
\* writing when no segment was split (reseg.py, step 7)
SuccessWrites(i) ==
    IF ALL_PHASES[i].name = "reseg" THEN {{}, {CalDoc}} ELSE {Provides(i)}

\* files a succeeding invocation that wrote W has opened: reseg returns
\* succeeded before it opens any file when its config disables it
\* (reseg.py, "if not enabled")
SuccessReads(i, W) ==
    IF ALL_PHASES[i].name = "reseg" /\ W = {} THEN {} ELSE Reads(i)

\* the sets of keys a failing invocation may leave partly written: reseg and
\* align return failed only before their first write
FailWrites(i) ==
    IF ALL_PHASES[i].name \in {"reseg", "align"} THEN {{}} ELSE {{}, Provides(i)}

\* the sets of keys an invocation killed at some point may leave partly
\* written: the files are opened for writing in place at the allocated path,
\* after the implementation has opened the files it reads
KillWrites(i) == {{}, Provides(i)}

WriteFiles(W, c) == [k \in Keys |-> IF k \in W THEN c ELSE disk[k]]

\* spec 4.5 step 8: an artifact record per returned output key
CommitArtifacts(i, d) ==
    [k \in Keys |->
        IF k \in Provides(i)
        THEN [fingerprint |-> hash_path(d[k]),
              producer |-> <<ALL_PHASES[i].name, RegisteredVersion(i)>>]
        ELSE artifacts[k]]

\* spec 4.5 step 8: the succeeded PhaseRecord
CommitRecord(i, d) ==
    [status |-> "succeeded", version |-> RegisteredVersion(i),
     input_fingerprint |-> input_fp,
     artifacts |-> [k \in Provides(i) |-> hash_path(d[k])],
     skipped |-> FALSE, error |-> "none"]

\* a commit that records an output key whose file does not exist
CanCommit_missingFile(i, d) == TRUE

\* spec 4.5 step 8: every returned output key has a file to fingerprint
CanCommit(i, d) == \A k \in Provides(i) : d[k] # Absent

\* a runner that does not record the failure
FailRecord_unrecorded(i, e) == phases[i]

\* spec 4.5 step 9: the failed PhaseRecord
FailRecord(i, e) == [phases[i] EXCEPT !.status = "failed", !.error = e]

\* spec 4.5 steps 7, 8, 10: the implementation returns succeeded. It finds the
\* input files it opens through the inputs map (tts.py 56-64, reseg.py 66,
\* sub.py 60), so it does not open one without the artifact record of its key
PhaseSucceeds ==
    /\ pc = "invoke"
    /\ \E W \in SuccessWrites(cur), c \in Contents :
          /\ \A k \in SuccessReads(cur, W) \cap Requires(cur) : artifacts[k] # NoArtifact
          /\ \A k \in SuccessReads(cur, W) : disk[k] # Absent
          /\ (ALL_PHASES[cur].name = "reseg" /\ W # {}) => c # disk[CalDoc]
          /\ disk' = WriteFiles(W, c)
          /\ written' = W
    /\ CanCommit(cur, disk')
    /\ artifacts' = CommitArtifacts(cur, disk')
    /\ phases' = [phases EXCEPT ![cur] = CommitRecord(cur, disk')]
    /\ GateAndAdvance(cur)
    /\ UNCHANGED <<stream_vars, aux_vars>>
    /\ UNCHANGED <<gates_at_start, prior, plan, input_fp, runs, ext, invoked, skipped_now, repeat,
                   edited, owed>>

\* spec 4.5 steps 7, 9: the implementation returns failed
PhaseFails ==
    /\ pc = "invoke"
    /\ \E W \in FailWrites(cur), e \in Errors :
          /\ W # {} => \A k \in Reads(cur) : disk[k] # Absent
          /\ disk' = WriteFiles(W, Torn)
          /\ written' = W
          /\ phases' = [phases EXCEPT ![cur] = FailRecord(cur, e)]
    /\ pc' = "idle"
    /\ outcome' = "failed"
    /\ clean' = 0
    /\ UNCHANGED <<stream_vars, aux_vars>>
    /\ UNCHANGED <<gates_at_start, prior, artifacts, gates, plan, cur, input_fp, runs, ext, invoked,
                   skipped_now, repeat, edited, owed>>

\* the runner process is killed (crash, or web/api/pipeline.py proc.kill())
\* while the implementation of the current phase is being invoked; a kill
\* between two phases changes no file and no record
Kill ==
    /\ pc = "invoke"
    /\ \E W \in KillWrites(cur) :
          /\ W # {} => \A k \in Reads(cur) : disk[k] # Absent
          /\ disk' = WriteFiles(W, Torn)
          /\ written' = W
    /\ pc' = "idle"
    /\ outcome' = "killed"
    /\ clean' = 0
    /\ UNCHANGED <<stream_vars, aux_vars>>
    /\ UNCHANGED <<gates_at_start, prior, artifacts, phases, gates, plan, cur, input_fp, runs, ext,
                   invoked, skipped_now, repeat, edited, owed>>

(***************************************************************************)
(* Operations from outside the runner                                      *)
(***************************************************************************)
\* spec 4.3 pass_gate, called through the external API
PassGate(g) ==
    /\ gates[g] = "open"
    /\ gates' = [gates EXCEPT ![g] = "passed"]
    /\ UNCHANGED <<stream_vars, aux_vars>>
    /\ UNCHANGED <<gates_at_start, prior, disk, artifacts, phases, pc, plan, cur,
                   input_fp, runs, ext, invoked, skipped_now, outcome, written,
                   clean, repeat, edited, owed>>

\* phases whose requires contains k, directly or through the provides of
\* other phases
RECURSIVE Downstream(_, _)
Downstream(S, n) ==
    IF n = 0 THEN S
    ELSE Downstream(S \cup {j \in PhaseIdx :
                               \E i \in S : Requires(j) \cap Provides(i) # {}}, n - 1)

Consumers(k) == {i \in PhaseIdx : k \in Requires(i)}
TransitiveConsumers(k) == Downstream(Consumers(k), Len(ALL_PHASES))

\* the producer's declared inputs are as its last succeeded record saw them
UpstreamUnchanged(i) ==
    /\ phases[i].status = "succeeded"
    /\ phases[i].input_fingerprint = InputFingerprint(i, RefreshUpstream(i))

\* web/api/asr_model.py put_asr_model: the editor saves the CalDoc
put_asr_model ==
    /\ ext < MaxExternal
    /\ disk[CalDoc] # Absent
    /\ \E c \in Contents \ {disk[CalDoc]} : disk' = WriteFiles({CalDoc}, c)
    /\ ext' = ext + 1
    /\ edited' = (pc = "idle" /\ UpstreamUnchanged(IndexOf("parse")))
    /\ owed' = owed \cup TransitiveConsumers(CalDoc)
    /\ clean' = 0
    /\ repeat' = FALSE
    /\ UNCHANGED <<stream_vars, aux_vars>>
    /\ UNCHANGED <<gates_at_start, prior, artifacts, phases, gates, pc, plan, cur, input_fp, runs, invoked,
                   skipped_now, outcome, written>>

\* the artifact files a person replaces: an input of asr and
\* align, the input of parse and reseg, and an input of burn
ModKeys == {"extract.audio", "asr.asr_result", "subs.en_srt"}

\* a person replaces the file of an artifact between two runs
ModifyFile(k) ==
    /\ ext < MaxExternal
    /\ pc = "idle"
    /\ artifacts[k] # NoArtifact
    /\ \E c \in Contents \ {disk[k]} : disk' = WriteFiles({k}, c)
    /\ ext' = ext + 1
    /\ edited' = FALSE
    /\ owed' = owed \cup TransitiveConsumers(k)
    /\ clean' = 0
    /\ UNCHANGED <<stream_vars, aux_vars>>
    /\ UNCHANGED <<gates_at_start, prior, artifacts, phases, gates, pc, plan, cur, input_fp, runs, invoked,
                   skipped_now, outcome, written, repeat>>

\* cli.bless_one, the keys whose fingerprint the loop replaces: the file
\* exists and the fingerprint in the phase record is not that of the file
BlessUpdated(i) ==
    {k \in DOMAIN phases[i].artifacts :
        disk[k] # Absent /\ phases[i].artifacts[k] # hash_path(disk[k])}

\* cli.bless_one, the fingerprints of the phase record after the loop
BlessedRecord(i) ==
    [phases[i] EXCEPT !.artifacts =
        [k \in DOMAIN phases[i].artifacts |->
            IF k \in BlessUpdated(i) THEN hash_path(disk[k])
            ELSE phases[i].artifacts[k]]]

\* cli.bless_one, manifest.data["artifacts"] after the loop
BlessedArtifacts(i) ==
    [k \in Keys |->
        IF k \in BlessUpdated(i) /\ artifacts[k] # NoArtifact
        THEN [artifacts[k] EXCEPT !.fingerprint = hash_path(disk[k])]
        ELSE artifacts[k]]

\* cli.bless_one: `bless <video> <phase>` that updates at least one
\* fingerprint (otherwise the manifest is not saved)
bless_one(i) ==
    /\ pc = "idle"
    /\ phases[i] # NoRecord
    /\ DOMAIN phases[i].artifacts # {}
    /\ BlessUpdated(i) # {}
    /\ phases' = [phases EXCEPT ![i] = BlessedRecord(i)]
    /\ artifacts' = BlessedArtifacts(i)
    /\ clean' = 0
    /\ UNCHANGED <<stream_vars, aux_vars>>
    /\ UNCHANGED <<gates_at_start, prior, disk, gates, pc, plan, cur, input_fp, runs,
                   ext, invoked, skipped_now, outcome, written, repeat, edited, owed>>

\* cli.bless_one when no fingerprint in the phase record differs from its
\* file: every key is passed over, the manifest is not saved, True is returned
bless_unchanged(i) ==
    /\ pc = "idle"
    /\ blessings < MaxBlessings
    /\ phases[i] # NoRecord
    /\ DOMAIN phases[i].artifacts # {}
    /\ BlessUpdated(i) = {}
    /\ blessings' = blessings + 1
    /\ UNCHANGED <<bumped, bump_run>>
    /\ UNCHANGED <<runner_vars, stream_vars, doc_vars, cli_vars, edit_vars, save_vars, relay_vars>>

\* a release registers a new version for a phase between two runs
bump_version(i) ==
    /\ pc = "idle"
    /\ Cardinality(bumped) < MaxBumps
    /\ i \notin bumped
    /\ bumped' = bumped \cup {i}
    /\ bump_run' = runs
    /\ UNCHANGED blessings
    /\ UNCHANGED <<runner_vars, stream_vars, doc_vars, cli_vars, edit_vars, save_vars, relay_vars>>

(***************************************************************************)
(* Stream controller: web/api/pipeline.py.  All requests concern one       *)
(* drama/episode, so _running is the entry of that lock_key (0: no entry). *)
(* The handlers are coroutines on one event loop: a step runs from one     *)
(* await or yield to the next.                                             *)
(***************************************************************************)
Streams == 1..MaxStreams
Procs == 1..MaxProcs
Live == {p \in Procs : proc[p] = "live"}
Unborn == {p \in Procs : proc[p] = "unborn"}
NewProc == CHOOSE p \in Unborn : \A q \in Unborn : p <= q

\* proc.kill(): a process that already ended stays as it ended
kill(p) == [proc EXCEPT ![p] = IF proc[p] = "live" THEN "killed" ELSE proc[p]]

\* run_pipeline_stream up to its first await: the concurrency guard
run_pipeline_stream(h) ==
    /\ blocking = 0
    /\ handler[h] = "new"
    /\ IF _running # 0
       THEN /\ handler' = [handler EXCEPT ![h] = "closed"]
            /\ response' = [response EXCEPT ![h] = 409]
       ELSE /\ handler' = [handler EXCEPT ![h] = "admitted"]
            /\ response' = response
    /\ UNCHANGED <<_running, proc, handler_proc, blocking, events, returncode, cancelled>>
    /\ UNCHANGED <<runner_vars, aux_vars>>

\* an SSE event: sse(event, data)
sse(event, rc, message) == [event |-> event, returncode |-> rc, message |-> message]

\* event_stream, from the first log event to the read loop: the process is
\* created and registered under lock_key
event_stream_spawn(h) ==
    /\ blocking = 0
    /\ handler[h] = "admitted"
    /\ Unborn # {}
    /\ proc' = [proc EXCEPT ![NewProc] = "live"]
    /\ _running' = NewProc
    /\ handler_proc' = [handler_proc EXCEPT ![h] = NewProc]
    /\ handler' = [handler EXCEPT ![h] = "reading"]
    /\ response' = [response EXCEPT ![h] = 200]
    /\ events' = [events EXCEPT ![h] = Append(@, sse("log", 0, "Pipeline started"))]
    /\ UNCHANGED <<blocking, returncode, cancelled>>
    /\ UNCHANGED <<runner_vars, aux_vars>>

\* event_stream after the process closed its stdout: the lines it printed
\* were relayed as log and phase events; proc.wait() gives the exit code (minus
\* the signal number for a killed process), done is yielded, then finally
event_stream_done(h) ==
    /\ blocking = 0
    /\ handler[h] = "reading"
    /\ proc[handler_proc[h]] # "live"
    /\ nread[h] = Len(stdout[handler_proc[h]])
    /\ _running' = 0
    /\ handler' = [handler EXCEPT ![h] = "closed"]
    /\ LET rc == IF proc[handler_proc[h]] = "killed" THEN -9
                 ELSE returncode[handler_proc[h]]
       IN  events' = [events EXCEPT ![h] = Append(@, sse("done", rc, ""))]
    /\ UNCHANGED <<proc, handler_proc, response, blocking, returncode, cancelled>>
    /\ UNCHANGED <<runner_vars, aux_vars>>

\* the client goes away: before the try block the generator is dropped;
\* inside it CancelledError kills the registered process, then finally
client_disconnect(h) ==
    /\ blocking = 0
    /\ handler[h] \in {"admitted", "reading"}
    /\ IF handler[h] = "admitted"
       THEN UNCHANGED <<_running, proc, events>>
       ELSE /\ proc' = IF _running # 0 THEN kill(_running) ELSE proc
            /\ _running' = 0
            /\ events' = [events EXCEPT ![h] =
                              Append(@, sse("error", 0, "Pipeline cancelled"))]
    /\ handler' = [handler EXCEPT ![h] = "closed"]
    /\ UNCHANGED <<handler_proc, response, blocking, returncode, cancelled>>
    /\ UNCHANGED <<runner_vars, aux_vars>>

\* cancel_pipeline with an entry under lock_key (without one it answers 404)
cancel_pipeline ==
    /\ blocking = 0
    /\ _running # 0
    /\ proc' = kill(_running)
    /\ cancelled' = IF proc[_running] = "live" THEN cancelled \cup {_running}
                    ELSE cancelled
    /\ _running' = 0
    /\ UNCHANGED <<handler, handler_proc, response, blocking, events, returncode>>
    /\ UNCHANGED <<runner_vars, aux_vars>>

\* run_pipeline (blocking): subprocess.run starts the process and holds the
\* event loop until it returns
run_pipeline ==
    /\ blocking = 0
    /\ Unborn # {}
    /\ proc' = [proc EXCEPT ![NewProc] = "live"]
    /\ blocking' = NewProc
    /\ UNCHANGED <<_running, handler, handler_proc, response, events, returncode,
                   cancelled>>
    /\ UNCHANGED <<runner_vars, aux_vars>>

\* subprocess.run returns: the process ended, or the timeout killed it
run_pipeline_return ==
    /\ blocking # 0
    /\ proc' = kill(blocking)
    /\ blocking' = 0
    /\ UNCHANGED <<_running, handler, handler_proc, response, events, returncode,
                   cancelled>>
    /\ UNCHANGED <<runner_vars, aux_vars>>

\* a runner process ends by itself, with the exit code of the command line
proc_exit(p, rc) ==
    /\ proc[p] = "live"
    /\ proc' = [proc EXCEPT ![p] = "exited"]
    /\ returncode' = [returncode EXCEPT ![p] = rc]
    /\ UNCHANGED <<_running, handler, handler_proc, response, blocking, events,
                   cancelled>>
    /\ UNCHANGED <<runner_vars, aux_vars>>

(***************************************************************************)
(* The CalDoc revision counter (schema/asr_model.py) under every writer    *)
(* of the file: the producer phase, reseg, align and the editor            *)
(***************************************************************************)
MaxRev == 4

MaxSaves == 5

MaxClients == 2

Clients == 1..MaxClients

\* AsrModel.bump_rev: history.rev += 1
bump_rev(r) == r + 1

\* SubtitlePhase.run builds a fresh AsrModel with AsrHistory(rev=1) and writes
\* it over whatever file is at the path.
SubtitlePhase_run ==
    /\ saves < MaxSaves
    /\ rev' = 1
    /\ saves' = saves + 1
    /\ UNCHANGED loaded
    /\ UNCHANGED <<runner_vars, stream_vars, cli_vars, edit_vars, warm_vars, save_vars, relay_vars>>

\* ResegPhase.run, the path that split a segment: load the file, bump_rev,
\* write it back.
ResegPhase_run ==
    /\ saves < MaxSaves
    /\ rev # 0
    /\ rev < MaxRev
    /\ rev' = bump_rev(rev)
    /\ saves' = saves + 1
    /\ UNCHANGED loaded
    /\ UNCHANGED <<runner_vars, stream_vars, cli_vars, edit_vars, warm_vars, save_vars, relay_vars>>

\* AlignPhase.run: load the file, bump_rev, update_fingerprint, write it back.
AlignPhase_run ==
    /\ saves < MaxSaves
    /\ rev # 0
    /\ rev < MaxRev
    /\ rev' = bump_rev(rev)
    /\ saves' = saves + 1
    /\ UNCHANGED loaded
    /\ UNCHANGED <<runner_vars, stream_vars, cli_vars, edit_vars, warm_vars, save_vars, relay_vars>>

\* GET asr-model: return the file. When there is none, import_asr_result is
\* called; it passes video= and audio= to AsrMediaInfo, which has the one
\* field duration_ms, so the call raises TypeError and nothing is written.
get_asr_model(c) ==
    /\ rev # 0
    /\ UNCHANGED <<rev, saves>>
    /\ loaded' = [loaded EXCEPT ![c] = rev]
    /\ loaded' # loaded
    /\ UNCHANGED <<runner_vars, stream_vars, cli_vars, edit_vars, warm_vars, save_vars, relay_vars>>

\* PUT asr-model: AsrModel.from_dict(body), bump_rev, write. The revision
\* written is the body's plus one; the file on disk is not read.
put_asr_model_rev(c) ==
    /\ saves < MaxSaves
    /\ loaded[c] # 0
    /\ loaded[c] < MaxRev
    /\ rev' = bump_rev(loaded[c])
    /\ saves' = saves + 1
    /\ loaded' = [loaded EXCEPT ![c] = rev']
    /\ UNCHANGED <<runner_vars, stream_vars, cli_vars, edit_vars, warm_vars, save_vars, relay_vars>>

InitDoc ==
    /\ rev = 0
    /\ loaded = [c \in Clients |-> 0]
    /\ saves = 0

(***************************************************************************)
(* The command line (cli.main): run and bless over the matched videos      *)
(***************************************************************************)
MaxVideos == 3

NoExit == -1

is_batch == Cardinality(video_paths) > 1

\* main up to the loops: parse the arguments, expand the video pattern and
\* exit 1 when nothing matches.
main(cmd, n, vocals) ==
    /\ cli_pc = "args"
    /\ command' = cmd
    /\ config' = vocals
    /\ video_paths' = 1..n
    /\ IF n = 0
       THEN /\ cli_pc' = "exited"
            /\ exit_code' = 1
            /\ idx' = 0
       ELSE /\ cli_pc' = "loop"
            /\ exit_code' = NoExit
            /\ idx' = 1
    /\ UNCHANGED <<failed, attempted, op_failed, registry>>
    /\ UNCHANGED <<runner_vars, stream_vars, doc_vars, edit_vars, warm_vars, save_vars, relay_vars>>

\* the run loop: run_one builds the phase list and calls the runner; an
\* exception ends a single-file call with exit 1 and is collected in batch mode.
run_loop(ok) ==
    /\ cli_pc = "loop"
    /\ command = "run"
    /\ idx \in video_paths
    /\ attempted' = attempted \cup {idx}
    /\ registry' = build_phases(config)
    /\ op_failed' = IF ok THEN op_failed ELSE op_failed \cup {idx}
    /\ IF ~ok /\ ~is_batch
       THEN /\ cli_pc' = "exited"
            /\ exit_code' = 1
            /\ UNCHANGED <<idx, failed>>
       ELSE /\ failed' = IF ok THEN failed ELSE failed \cup {idx}
            /\ idx' = idx + 1
            /\ UNCHANGED <<cli_pc, exit_code>>
    /\ UNCHANGED <<command, config, video_paths>>
    /\ UNCHANGED <<runner_vars, stream_vars, doc_vars, edit_vars, warm_vars, save_vars, relay_vars>>

\* the bless loop: a bless_one that returns False is collected, nothing more.
bless_loop(ok) ==
    /\ cli_pc = "loop"
    /\ command = "bless"
    /\ idx \in video_paths
    /\ attempted' = attempted \cup {idx}
    /\ op_failed' = IF ok THEN op_failed ELSE op_failed \cup {idx}
    /\ failed' = IF ok THEN failed ELSE failed \cup {idx}
    /\ idx' = idx + 1
    /\ UNCHANGED <<cli_pc, command, config, video_paths, exit_code, registry>>
    /\ UNCHANGED <<runner_vars, stream_vars, doc_vars, edit_vars, warm_vars, save_vars, relay_vars>>

\* the batch summary and the end of main: exit 1 only in batch mode with a
\* non-empty failed list, else main returns and the process exits 0.
main_return ==
    /\ cli_pc = "loop"
    /\ idx \notin video_paths
    /\ cli_pc' = "exited"
    /\ exit_code' = IF is_batch /\ failed # {} THEN 1 ELSE 0
    /\ UNCHANGED <<command, config, video_paths, idx, failed, attempted,
                   op_failed, registry>>
    /\ UNCHANGED <<runner_vars, stream_vars, doc_vars, edit_vars, warm_vars, save_vars, relay_vars>>

InitCli ==
    /\ cli_pc = "args"
    /\ command = "none"
    /\ config = FALSE
    /\ video_paths = {}
    /\ idx = 0
    /\ failed = {}
    /\ attempted = {}
    /\ op_failed = {}
    /\ exit_code = NoExit
    /\ registry = <<>>

(***************************************************************************)
(* The CalDoc fingerprint (AsrModel.compute_fingerprint) under an editor   *)
(* session. A string is the sequence of its characters.                    *)
(***************************************************************************)
MaxLen == 1

MaxSegments == 2

MaxMs == 1

MaxEdits == 2

MaxPuts == 1

\* the alphabet of the text fields
Chars == {"a", "|", "\n"}

Strs == UNION {[1..n -> Chars] : n \in 0..MaxLen}

SegIds == {<<"s", "1">>, <<"s", "2">>}

TextFields == {"text", "text_en", "speaker", "emotion"}

TimeFields == {"start_ms", "end_ms"}

\* str(int) of a non-negative integer: its decimal digits
RECURSIVE str(_)
str(n) ==
    LET digit == <<"0", "1", "2", "3", "4", "5", "6", "7", "8", "9">>
    IN  IF n < 10 THEN <<digit[n + 1]>>
        ELSE str(n \div 10) \o <<digit[(n % 10) + 1]>>

\* "\n".join(parts)
RECURSIVE join(_)
join(parts) ==
    IF parts = <<>> THEN <<>>
    ELSE IF Len(parts) = 1 THEN parts[1]
    ELSE parts[1] \o <<"\n">> \o join(Tail(parts))

\* AsrModel.compute_fingerprint: the seven core fields of each segment joined
\* by "|", the segments joined by newline, then SHA-256 (taken as injective)
compute_fingerprint(segs) ==
    LET part(seg) == seg.id \o <<"|">> \o str(seg.start_ms) \o <<"|">> \o str(seg.end_ms)
                     \o <<"|">> \o seg.text \o <<"|">> \o seg.text_en
                     \o <<"|">> \o seg.speaker \o <<"|">> \o seg.emotion
    IN  <<"sha256", join([i \in DOMAIN segs |-> part(segs[i])])>>

\* AsrModel.from_dict defaults of a segment the body gives only id and text for
NewSegment(id) ==
    [id |-> id, start_ms |-> 0, end_ms |-> 0, text |-> <<>>, text_en |-> <<>>,
     speaker |-> <<"0">>, emotion |-> <<"n">>]

\* the editor changes one text field of one segment
edit_text(i, f, v) ==
    /\ edits < MaxEdits
    /\ i \in DOMAIN segments
    /\ segments[i][f] # v
    /\ segments' = [segments EXCEPT ![i][f] = v]
    /\ edits' = edits + 1
    /\ UNCHANGED <<stored, fingerprint, puts>>
    /\ UNCHANGED <<runner_vars, stream_vars, doc_vars, cli_vars, warm_vars, save_vars, relay_vars>>

\* the editor changes the start or the end of one segment
edit_time(i, f, ms) ==
    /\ edits < MaxEdits
    /\ i \in DOMAIN segments
    /\ segments[i][f] # ms
    /\ segments' = [segments EXCEPT ![i][f] = ms]
    /\ edits' = edits + 1
    /\ UNCHANGED <<stored, fingerprint, puts>>
    /\ UNCHANGED <<runner_vars, stream_vars, doc_vars, cli_vars, warm_vars, save_vars, relay_vars>>

\* the editor adds a segment at the end
add_segment(id) ==
    /\ edits < MaxEdits
    /\ Len(segments) < MaxSegments
    /\ \A i \in DOMAIN segments : segments[i].id # id
    /\ segments' = Append(segments, NewSegment(id))
    /\ edits' = edits + 1
    /\ UNCHANGED <<stored, fingerprint, puts>>
    /\ UNCHANGED <<runner_vars, stream_vars, doc_vars, cli_vars, warm_vars, save_vars, relay_vars>>

\* the editor deletes the last segment
delete_segment ==
    /\ edits < MaxEdits
    /\ segments # <<>>
    /\ segments' = SubSeq(segments, 1, Len(segments) - 1)
    /\ edits' = edits + 1
    /\ UNCHANGED <<stored, fingerprint, puts>>
    /\ UNCHANGED <<runner_vars, stream_vars, doc_vars, cli_vars, warm_vars, save_vars, relay_vars>>

\* PUT asr-model with the edited document: from_dict, update_fingerprint, write
put_asr_model_body ==
    /\ puts < MaxPuts
    /\ edits > 0
    /\ stored' = segments
    /\ fingerprint' = compute_fingerprint(segments)
    /\ edits' = 0
    /\ puts' = puts + 1
    /\ UNCHANGED segments
    /\ UNCHANGED <<runner_vars, stream_vars, doc_vars, cli_vars, warm_vars, save_vars, relay_vars>>

\* the document the editor has loaded: one recognised segment
InitEdit ==
    /\ segments = <<[NewSegment(<<"s", "1">>) EXCEPT !.end_ms = 1, !.text = <<"a">>]>>
    /\ stored = segments
    /\ fingerprint = compute_fingerprint(segments)
    /\ edits = 0
    /\ puts = 0

(***************************************************************************)
(* The CalDoc file (dub.json) under its writers: the producer phase        *)
(* (phases/sub.py), reseg, align and the editor (web/api/asr_model.py)     *)
(***************************************************************************)
MaxT == 3

MaxWrites == 4

Times == 0..MaxT

\* AsrSegment(...) as the writers construct it: text_en "" and flags.overlap
\* False by default
AsrSegment(id, start_ms, end_ms, text, speaker, emotion) ==
    [id |-> id, start_ms |-> start_ms, end_ms |-> end_ms, text |-> text,
     text_en |-> <<>>, speaker |-> speaker, emotion |-> emotion, overlap |-> FALSE]

\* the ids the producer phase takes from the utterances (utt.utt_id)
UttIds == <<(<<"u", "1">>), (<<"u", "2">>)>>

\* _gen_seg_id: "seg_" and 8 random hex digits, taken as an id no segment of
\* the file or of the editor has
GenIds == {<<"g", "1">>, <<"g", "2">>, <<"g", "3">>, <<"g", "4">>}

\* the segment lists the producer phase builds from an ASR result: a long
\* utterance alone, or followed by a short one
Utterances ==
    LET long == AsrSegment(UttIds[1], 0, 2, <<"a", "a">>, <<"0">>, <<"n">>)
        short == AsrSegment(UttIds[2], 2, 3, <<"a">>, <<"0">>, <<"n">>)
    IN  {<<long>>, <<long, short>>}

Ids(segs) == {segs[i].id : i \in DOMAIN segs}

\* AsrModel as far as the fingerprint goes: segments and fingerprint.value
AsrModel(segs, value) == [exists |-> TRUE, segments |-> segs, fingerprint |-> value]

NoFile == [exists |-> FALSE, segments |-> <<>>, fingerprint |-> <<>>]

\* a save that writes the model with the fingerprint value it already carries
update_fingerprint_stale(m) == m

\* AsrModel.update_fingerprint
update_fingerprint(m) == [m EXCEPT !.fingerprint = compute_fingerprint(m.segments)]

\* AsrModel.detect_overlaps: clear the flags, sort by start_ms (stable), flag
\* both segments of every adjacent pair whose second starts before the first ends
detect_overlaps(m) ==
    LET segs == m.segments
        rank(i) == 1 + Cardinality({j \in DOMAIN segs :
                        \/ segs[j].start_ms < segs[i].start_ms
                        \/ segs[j].start_ms = segs[i].start_ms /\ j < i})
        sorted_segs == [r \in DOMAIN segs |-> CHOOSE i \in DOMAIN segs : rank(i) = r]
        hit(r) == r \in 2..Len(segs) /\
                  segs[sorted_segs[r]].start_ms < segs[sorted_segs[r - 1]].end_ms
    IN  [m EXCEPT !.segments =
            [i \in DOMAIN segs |->
                [segs[i] EXCEPT !.overlap = hit(rank(i)) \/ hit(rank(i) + 1)]]]

\* the producer phase, as SubtitlePhase.run writes the file: a fresh AsrModel
\* from the utterances, update_fingerprint, written over whatever is at the
\* path. (SubtitlePhase.run itself passes speech_rate= to AsrSegment, which
\* schema/asr_model.py does not take; the registered ParsePhase is taken to
\* write the document the same way.) The runner invokes one phase at a time.
SubtitlePhase_save(segs) ==
    /\ writes < MaxWrites
    /\ held.who = "none"
    /\ file' = update_fingerprint(AsrModel(segs, <<>>))
    /\ writes' = writes + 1
    /\ UNCHANGED <<held, client>>
    /\ UNCHANGED <<runner_vars, stream_vars, doc_vars, cli_vars, edit_vars, warm_vars, relay_vars>>

\* ResegPhase.run and AlignPhase.run: AsrModel.from_dict(json.load(f))
Phase_load(who) ==
    /\ file.exists
    /\ held.who = "none"
    /\ held' = [who |-> who, read |-> file]
    /\ UNCHANGED <<file, client, writes>>
    /\ UNCHANGED <<runner_vars, stream_vars, doc_vars, cli_vars, edit_vars, warm_vars, relay_vars>>

\* processors/reseg.run step 10 and the final list: segment i is replaced by
\* two AsrSegment with ids from _gen_seg_id, the words' times and the parts of
\* the text; speaker and emotion are copied
Split(segs, i, mid, id1, id2) ==
    LET seg == segs[i]
        new_segs == << AsrSegment(id1, seg.start_ms, mid, SubSeq(seg.text, 1, 1),
                                  seg.speaker, seg.emotion),
                       AsrSegment(id2, mid, seg.end_ms, SubSeq(seg.text, 2, Len(seg.text)),
                                  seg.speaker, seg.emotion) >>
    IN  SubSeq(segs, 1, i - 1) \o new_segs \o SubSeq(segs, i + 1, Len(segs))

\* processors/reseg.run step 3: the segments over the length threshold
Candidates(segs) == {i \in DOMAIN segs : Len(segs[i].text) > 1}

\* ResegPhase.run steps 7, 8: without a split nothing is written; with one
\* the segments are replaced, update_fingerprint, write
ResegPhase_save ==
    /\ held.who = "reseg"
    /\ held' = [who |-> "none", read |-> NoFile]
    /\ \/ UNCHANGED <<file, writes>>
       \/ /\ writes < MaxWrites
          /\ writes' = writes + 1
          /\ \E i \in Candidates(held.read.segments),
                mid \in Times,
                id1, id2 \in GenIds \ (Ids(file.segments) \cup Ids(held.read.segments)
                                       \cup Ids(client.segments)) :
                /\ id1 # id2
                /\ held.read.segments[i].start_ms < mid
                /\ mid < held.read.segments[i].end_ms
                /\ file' = update_fingerprint(
                             [held.read EXCEPT !.segments = Split(@, i, mid, id1, id2)])
    /\ UNCHANGED client
    /\ UNCHANGED <<runner_vars, stream_vars, doc_vars, cli_vars, edit_vars, warm_vars, relay_vars>>

\* AlignPhase.run: text_en of every translated segment is set,
\* update_fingerprint, write
AlignPhase_save ==
    /\ held.who = "align"
    /\ writes < MaxWrites
    /\ held' = [who |-> "none", read |-> NoFile]
    /\ file' = update_fingerprint(
                 [held.read EXCEPT !.segments =
                     [i \in DOMAIN @ |-> [@[i] EXCEPT !.text_en = <<"a">>]]])
    /\ writes' = writes + 1
    /\ UNCHANGED client
    /\ UNCHANGED <<runner_vars, stream_vars, doc_vars, cli_vars, edit_vars, warm_vars, relay_vars>>

\* GET asr-model of an existing file: the editor loads the document
get_asr_model_file ==
    /\ file.exists
    /\ client # file
    /\ client' = file
    /\ UNCHANGED <<file, held, writes>>
    /\ UNCHANGED <<runner_vars, stream_vars, doc_vars, cli_vars, edit_vars, warm_vars, relay_vars>>

\* the editor moves the start or the end of a segment of the document it
\* has loaded
client_edit_time(i, f, ms) ==
    /\ client.exists
    /\ client = file
    /\ i \in DOMAIN client.segments
    /\ client.segments[i][f] # ms
    /\ client' = [client EXCEPT !.segments[i][f] = ms]
    /\ client'.segments[i].start_ms < client'.segments[i].end_ms
    /\ UNCHANGED <<file, held, writes>>
    /\ UNCHANGED <<runner_vars, stream_vars, doc_vars, cli_vars, edit_vars, warm_vars, relay_vars>>

\* the editor removes a segment of the document it has loaded
client_delete(i) ==
    /\ client.exists
    /\ client = file
    /\ i \in DOMAIN client.segments
    /\ client' = [client EXCEPT !.segments =
                     SubSeq(@, 1, i - 1) \o SubSeq(@, i + 1, Len(@))]
    /\ UNCHANGED <<file, held, writes>>
    /\ UNCHANGED <<runner_vars, stream_vars, doc_vars, cli_vars, edit_vars, warm_vars, relay_vars>>

\* PUT asr-model: AsrModel.from_dict(body), bump_rev, detect_overlaps,
\* update_fingerprint, atomic_write; the file on disk is not read
put_asr_model_save ==
    /\ client.exists
    /\ writes < MaxWrites
    /\ file' = update_fingerprint(detect_overlaps(client))
    /\ client' = file'
    /\ writes' = writes + 1
    /\ UNCHANGED held
    /\ UNCHANGED <<runner_vars, stream_vars, doc_vars, cli_vars, edit_vars, warm_vars, relay_vars>>

InitSave ==
    /\ file = NoFile
    /\ held = [who |-> "none", read |-> NoFile]
    /\ client = NoFile
    /\ writes = 0

(***************************************************************************)
(* Status endpoint: web/api/pipeline.py pipeline_status                    *)
(***************************************************************************)
\* the phase list of the endpoint
PHASE_NAMES == <<"demux", "sep", "asr", "sub", "mt", "align", "tts", "mix", "burn">>

\* manifest.json "phases": phases_data.get(name), NoRecord for None
phases_data(name) ==
    IF name \in PhaseNames THEN phases[IndexOf(name)] ELSE NoRecord

\* the summary the endpoint returns, one entry per name of PHASE_NAMES
_read_manifest_phases ==
    [n \in DOMAIN PHASE_NAMES |->
        LET pd == phases_data(PHASE_NAMES[n])
        IN  IF pd # NoRecord
            THEN [name |-> PHASE_NAMES[n], status |-> pd.status,
                  skipped |-> pd.skipped, error |-> pd.error]
            ELSE [name |-> PHASE_NAMES[n], status |-> "pending",
                  skipped |-> FALSE, error |-> "none"]]

(***************************************************************************)
(* The workspace under the runner, the CLI and the editor                  *)
(***************************************************************************)
\* everything outside the workspace: no request, no process, no document,
\* no invocation of the command line
InitRest ==
    /\ _running = 0
    /\ proc = [p \in Procs |-> "unborn"]
    /\ handler = [h \in Streams |-> "new"]
    /\ handler_proc = [h \in Streams |-> 0]
    /\ response = [h \in Streams |-> 0]
    /\ blocking = 0
    /\ events = [h \in Streams |-> <<>>]
    /\ returncode = [p \in Procs |-> NoExit]
    /\ cancelled = {}
    /\ InitDoc
    /\ InitCli
    /\ InitEdit
    /\ bumped = {}
    /\ bump_run = 0
    /\ blessings = 0
    /\ InitSave
    /\ stdout = [p \in Procs |-> <<>>]
    /\ nread = [h \in Streams |-> 0]

Init ==
    /\ disk = [k \in Keys |-> Absent]
    /\ artifacts = [k \in Keys |-> NoArtifact]
    /\ phases = [i \in PhaseIdx |-> NoRecord]
    /\ gates = [g \in GateKeys |-> "pending"]
    /\ pc = "idle"
    /\ plan = NoPlan
    /\ cur = 0
    /\ input_fp = NoFp
    /\ runs = 0
    /\ ext = 0
    /\ invoked = {}
    /\ skipped_now = {}
    /\ outcome = "none"
    /\ written = {}
    /\ clean = 0
    /\ repeat = FALSE
    /\ edited = FALSE
    /\ owed = {}
    /\ gates_at_start = [g \in GateKeys |-> "pending"]
    /\ prior = "none"
    /\ InitRest

\* A workspace after a full run to burn, reached from the empty workspace by
\* four runs --to burn with both gates passed: parse wrote the CalDoc, reseg
\* split nothing, align rewrote the CalDoc and wrote the subtitles, the next
\* run re-invoked reseg and mt on the rewritten CalDoc, the last one ran tts,
\* mix and burn. Every record is succeeded with the registered version and
\* the input fingerprint of the artifacts as they are. One more run fits
\* the bound on runs.
\* the runs on the finished workspace: cli run --to burn, and the reruns of
\* the stream controller, --from mt --to burn and --from tts --to burn
WarmRunArgs == {a \in RunArgs : a[2] = IndexOf("burn")}

WarmDisk == [k \in Keys |-> IF k \in Provides(IndexOf("align")) THEN 2 ELSE 1]

WarmInit ==
    /\ InitRest
    /\ disk = WarmDisk
    /\ artifacts = [k \in Keys |->
          [fingerprint |-> hash_path(WarmDisk[k]),
           producer |-> LET i == IF k = CalDoc THEN IndexOf("reseg")
                                 ELSE CHOOSE j \in PhaseIdx : k \in Provides(j)
                        IN  <<ALL_PHASES[i].name, ALL_PHASES[i].version>>]]
    /\ phases = [i \in PhaseIdx |->
          [status |-> "succeeded", version |-> ALL_PHASES[i].version,
           input_fingerprint |-> InputFingerprint(i, artifacts),
           artifacts |-> [k \in Provides(i) |->
                             IF ALL_PHASES[i].name = "parse" THEN hash_path(1)
                             ELSE hash_path(WarmDisk[k])],
           skipped |-> (i <= IndexOf("align")), error |-> "none"]]
    /\ gates = [g \in GateKeys |-> "passed"]
    /\ pc = "idle"
    /\ plan = ExecutionPlan(0, IndexOf("burn"))
    /\ cur = IndexOf("burn")
    /\ input_fp = InputFingerprint(IndexOf("burn"), artifacts)
    /\ runs = MaxRuns - 1
    /\ ext = 0
    /\ invoked = {IndexOf("tts"), IndexOf("mix"), IndexOf("burn")}
    /\ skipped_now = 1..IndexOf("align")
    /\ outcome = "completed"
    /\ written = {"burn.video"}
    /\ clean = IndexOf("burn")
    /\ repeat = FALSE
    /\ edited = FALSE
    /\ owed = {}
    /\ gates_at_start = [g \in GateKeys |-> "passed"]
    /\ prior = "none"

Next ==
    \/ \E a \in RunArgs : StartRun(a[1], a[2])
    \/ MissingInput
    \/ SkipPhase
    \/ PreRun
    \/ PhaseSucceeds
    \/ PhaseFails
    \/ Kill
    \/ \E g \in GateKeys : PassGate(g)
    \/ put_asr_model
    \/ \E k \in ModKeys : ModifyFile(k)
    \/ \E i \in PhaseIdx : bless_one(i)

Spec == Init /\ [][Next]_vars

(***************************************************************************)
(* The stream controller under requests, disconnects and process exits     *)
(***************************************************************************)
NextStream ==
    \/ \E h \in Streams : run_pipeline_stream(h)
    \/ \E h \in Streams : event_stream_spawn(h)
    \/ \E h \in Streams : event_stream_done(h)
    \/ \E h \in Streams : client_disconnect(h)
    \/ cancel_pipeline
    \/ run_pipeline
    \/ run_pipeline_return
    \/ \E p \in Procs, rc \in {0, 1} : proc_exit(p, rc)

SpecStream == Init /\ [][NextStream]_vars

(***************************************************************************)
(* The CalDoc file under its writers                                       *)
(***************************************************************************)
NextDoc ==
    \/ SubtitlePhase_run
    \/ ResegPhase_run
    \/ AlignPhase_run
    \/ \E c \in Clients : get_asr_model(c)
    \/ \E c \in Clients : put_asr_model_rev(c)

SpecDoc == Init /\ [][NextDoc]_vars

(***************************************************************************)
(* The workspace after a full run to burn, under further runs, file        *)
(* replacements, editor saves, bless and version bumps                     *)
(***************************************************************************)
NextWarm ==
    \/ \E a \in WarmRunArgs : StartRun(a[1], a[2])
    \/ SkipPhase
    \/ PreRun
    \/ PhaseSucceeds
    \/ put_asr_model
    \/ \E k \in ModKeys : ModifyFile(k)
    \/ \E i \in PhaseIdx : bless_one(i)
    \/ \E i \in PhaseIdx : bless_unchanged(i)
    \/ \E i \in PhaseIdx : bump_version(i)

SpecWarm == WarmInit /\ [][NextWarm]_vars

(***************************************************************************)
(* One invocation of the command line                                      *)
(***************************************************************************)
NextCli ==
    \/ \E cmd \in {"run", "bless"}, n \in 0..MaxVideos, vocals \in BOOLEAN :
          main(cmd, n, vocals)
    \/ \E ok \in BOOLEAN : run_loop(ok)
    \/ \E ok \in BOOLEAN : bless_loop(ok)
    \/ main_return

SpecCli == Init /\ [][NextCli]_vars

(***************************************************************************)
(* An editor session on the CalDoc                                         *)
(***************************************************************************)
NextEdit ==
    \/ \E i \in 1..MaxSegments, f \in TextFields, v \in Strs : edit_text(i, f, v)
    \/ \E i \in 1..MaxSegments, f \in TimeFields, ms \in 0..MaxMs : edit_time(i, f, ms)
    \/ \E id \in SegIds : add_segment(id)
    \/ delete_segment
    \/ put_asr_model_body

SpecEdit == Init /\ [][NextEdit]_vars

(***************************************************************************)
(* The CalDoc file under the producer phase, reseg, align and the editor   *)
(***************************************************************************)
NextSave ==
    \/ \E segs \in Utterances : SubtitlePhase_save(segs)
    \/ \E who \in {"reseg", "align"} : Phase_load(who)
    \/ ResegPhase_save
    \/ AlignPhase_save
    \/ get_asr_model_file
    \/ \E i \in 1..3, f \in TimeFields, ms \in Times : client_edit_time(i, f, ms)
    \/ \E i \in 1..3 : client_delete(i)
    \/ put_asr_model_save

SpecSave == Init /\ [][NextSave]_vars

(***************************************************************************)
(* The inputs map inside the implementations: the keys each run() method   *)
(* subscripts (inputs[k] raises KeyError when k is absent; inputs.get(k)   *)
(* does not), given the set of keys of the map it was handed               *)
(***************************************************************************)
\* asr.py: inputs.get("sep.vocals") or inputs["demux.audio"]
ASRPhase_lookups(inputs) == IF "sep.vocals" \in inputs THEN {} ELSE {"demux.audio"}

\* sub.py (the parse phase): inputs["asr.asr_result"]
SubtitlePhase_lookups(inputs) == {"asr.asr_result"}

\* reseg.py: inputs["dub.dub_manifest"], then inputs["asr.asr_result"]
ResegPhase_lookups(inputs) == {"dub.dub_manifest", "asr.asr_result"}

\* align.py: inputs["mt.mt_output"], then inputs["demux.audio"]
AlignPhase_lookups(inputs) == {"mt.mt_output", "demux.audio"}

\* extract takes no inputs, tts uses inputs.get only; mt, mix and burn read
\* the keys registered for them
InputLookups(i, inputs) ==
    CASE ALL_PHASES[i].name = "asr" -> ASRPhase_lookups(inputs)
      [] ALL_PHASES[i].name = "parse" -> SubtitlePhase_lookups(inputs)
      [] ALL_PHASES[i].name = "reseg" -> ResegPhase_lookups(inputs)
      [] ALL_PHASES[i].name = "align" -> AlignPhase_lookups(inputs)
      [] ALL_PHASES[i].name \in {"extract", "tts"} -> {}
      [] OTHER -> Requires(i)

(***************************************************************************)
(* The read loop of event_stream (web/api/pipeline.py 148-160): the lines  *)
(* of the runner's stdout are relayed as log events and searched for the   *)
(* name of a phase.  A line is the sequence of its characters.             *)
(***************************************************************************)
\* the characters of the names the registry and PHASE_NAMES hold
Spell ==
    [n \in PhaseNames \cup Range(PHASE_NAMES) |->
        CASE n = "extract" -> <<"e", "x", "t", "r", "a", "c", "t">>
          [] n = "asr" -> <<"a", "s", "r">>
          [] n = "parse" -> <<"p", "a", "r", "s", "e">>
          [] n = "reseg" -> <<"r", "e", "s", "e", "g">>
          [] n = "mt" -> <<"m", "t">>
          [] n = "align" -> <<"a", "l", "i", "g", "n">>
          [] n = "tts" -> <<"t", "t", "s">>
          [] n = "mix" -> <<"m", "i", "x">>
          [] n = "burn" -> <<"b", "u", "r", "n">>
          [] n = "demux" -> <<"d", "e", "m", "u", "x">>
          [] n = "sep" -> <<"s", "e", "p">>
          [] n = "sub" -> <<"s", "u", "b">>]

\* the runner's line announcing a phase: "phase X running", "phase X starting"
\* (spec 4.2, phase derivation)
Announce(name, verb) == <<"p", "h", "a", "s", "e", " ">> \o Spell[name] \o <<" ">> \o verb

running == <<"r", "u", "n", "n", "i", "n", "g">>
starting == <<"s", "t", "a", "r", "t", "i", "n", "g">>

\* cli.run_one after a run: "[v] Pipeline completed" and one line per output
\* ("  burn.video: o"); a blank line comes out as spaces before the newline
RunnerLines ==
    {Announce(n, v) : n \in PhaseNames, v \in {running, starting}} \cup
    {<<"[", "v", "]", " ", "P", "i", "p", "e", "l", "i", "n", "e", " ", "c", "o", "m", "p", "l", "e", "t", "e", "d">>,
     <<" ", " ", "b", "u", "r", "n", ".", "v", "i", "d", "e", "o", ":", " ", "o">>,
     <<" ", " ">>}

\* str.rstrip() as far as these lines go: trailing blanks are dropped
RECURSIVE rstrip(_)
rstrip(s) ==
    IF s # <<>> /\ s[Len(s)] = " " THEN rstrip(SubSeq(s, 1, Len(s) - 1)) ELSE s

\* str.lower() over the capitals these lines hold
lower(s) == [i \in DOMAIN s |-> IF s[i] = "P" THEN "p" ELSE s[i]]

\* sub in s, for strings
Contains(sub, s) ==
    \E i \in 0..(Len(s) - Len(sub)) : SubSeq(s, i + 1, i + Len(sub)) = sub

\* the for loop over PHASE_NAMES: the first name found in the lowered line,
\* when the line also holds "phase" or "running"; at most one phase event
detect_phase(text) ==
    LET line_lower == lower(text)
        hits == {j \in DOMAIN PHASE_NAMES :
                    /\ Contains(Spell[PHASE_NAMES[j]], line_lower)
                    /\ \/ Contains(<<"p", "h", "a", "s", "e">>, line_lower)
                       \/ Contains(running, line_lower)}
    IN  IF hits = {} THEN <<>>
        ELSE <<sse("phase", 0, PHASE_NAMES[CHOOSE j \in hits : \A k \in hits : j <= k])>>

\* the events one iteration of the read loop yields for a raw line
line_events(raw) ==
    LET text == rstrip(raw)
    IN  IF text = <<>> THEN <<>> ELSE <<sse("log", 0, text)>> \o detect_phase(text)

\* the runner process writes a line to its stdout pipe
runner_write(p, text) ==
    /\ proc[p] = "live"
    /\ p # blocking
    /\ Len(stdout[p]) < MaxLines
    /\ stdout' = [stdout EXCEPT ![p] = Append(@, text)]
    /\ UNCHANGED nread
    /\ UNCHANGED <<runner_vars, stream_vars, doc_vars, cli_vars, edit_vars, warm_vars,
                   save_vars>>

\* one iteration of `async for raw_line in proc.stdout`
event_stream_line(h) ==
    /\ blocking = 0
    /\ handler[h] = "reading"
    /\ nread[h] < Len(stdout[handler_proc[h]])
    /\ nread' = [nread EXCEPT ![h] = @ + 1]
    /\ events' = [events EXCEPT ![h] =
                      @ \o line_events(stdout[handler_proc[h]][nread[h] + 1])]
    /\ UNCHANGED <<_running, proc, handler, handler_proc, response, blocking,
                   returncode, cancelled, stdout>>
    /\ UNCHANGED <<runner_vars, doc_vars, cli_vars, edit_vars, warm_vars, save_vars>>

\* one run-stream request and its runner process
NextRelay ==
    \/ run_pipeline_stream(1)
    \/ event_stream_spawn(1)
    \/ \E p \in Procs, text \in RunnerLines : runner_write(p, text)
    \/ event_stream_line(1)
    \/ \E p \in Procs, rc \in {0, 1} : proc_exit(p, rc)
    \/ event_stream_done(1)

SpecRelay == Init /\ [][NextRelay]_vars

(***************************************************************************)
(* Properties                                                              *)
(***************************************************************************)
\* C1 (idempotence of skip): a `run --to X` that repeats a completed
\* `run --to X` on an unchanged workspace, with every gate up to X passed,
\* invokes no phase, and when it has ended every phase up to X has
\* skipped = true in its record.
C1_IdempotentSkip ==
    (/\ repeat
     /\ \A g \in GateKeys : GateAfterIdx(g) <= plan.to => gates_at_start[g] = "passed")
        => /\ invoked = {}
           /\ pc = "idle" => \A i \in 1..plan.to : phases[i].skipped

C4_GateHalt ==
    \A g \in GateKeys :
        (/\ runs > 0
         /\ gates_at_start[g] = "pending"
         /\ plan.first <= GateAfterIdx(g)
         /\ GateAfterIdx(g) < plan.to)
        => /\ \A i \in invoked \cup skipped_now : i <= GateAfterIdx(g)
           /\ cur <= GateAfterIdx(g)
           /\ outcome # "completed"
           /\ (\/ GateAfterIdx(g) \in skipped_now
               \/ (GateAfterIdx(g) \in invoked
                   /\ phases[GateAfterIdx(g)].status = "succeeded"))
                 => /\ pc = "idle"
                    /\ outcome = "gate"
                    /\ cur = GateAfterIdx(g)
                    /\ gates[g] # "pending"

\* `run --to burn` on an empty workspace has executed extract .. reseg, opened
\* source_review and stopped
C4_Witness ==
    /\ pc = "idle"
    /\ outcome = "gate"
    /\ plan.to = IndexOf("burn")
    /\ gates_at_start["source_review"] = "pending"
    /\ gates["source_review"] = "open"
    /\ invoked = 1..IndexOf("reseg")

\* C5 (no phase past an unpassed gate): a phase whose inputs all have artifact
\* records is being invoked only if every gate placed after an earlier phase
\* is passed.
C5_NoPhasePastGate ==
    (pc = "invoke" /\ MissingInputs(cur) = {})
        => \A g \in GateKeys : GateAfterIdx(g) < cur => gates[g] = "passed"

\* C6 (per-episode mutual exclusion): at most one runner process of the
\* episode is live.
C6_MutualExclusion == Cardinality(Live) <= 1

\* C7 (atomicity): no artifact record carries the fingerprint of a file that
\* an invocation left partly written, unless `bless` put it into the phase
\* record as well.
C7_NoTornArtifact ==
    \A k \in Keys :
        artifacts[k].fingerprint = hash_path(Torn)
            => \E i \in PhaseIdx : /\ k \in DOMAIN phases[i].artifacts
                                   /\ phases[i].artifacts[k] = hash_path(Torn)

\* C8 (crash recovery): after the runner was killed inside phase P the record
\* of P has status running, and a run skips a phase only if its record has
\* status succeeded, so the next run that reaches P invokes it.
C8_CrashRecovery ==
    /\ outcome = "killed" => phases[cur].status = "running"
    /\ \A i \in skipped_now : phases[i].status = "succeeded"
    /\ (pc = "ready" /\ phases[cur].status = "running" /\ CanResolve(cur))
          => ~ShouldSkip(cur, RefreshUpstream(cur))

\* a run invokes a phase whose record a kill had left with status running
C8_Witness == pc = "invoke" /\ prior = "running" /\ runs = 2

\* C9 (stop on first failure): the step in which an invocation returns failed
\* records status failed with the phase's error, leaves every artifact record
\* as it was and stops the runner; until the next call no phase is invoked or
\* skipped.
C9_StopOnFailure ==
    [][/\ (pc = "invoke" /\ outcome' = "failed")
            => /\ pc' = "idle"
               /\ cur' = cur
               /\ phases'[cur].status = "failed"
               /\ phases'[cur].error \in Errors
               /\ artifacts' = artifacts
       /\ (outcome = "failed" /\ runs' = runs)
            => /\ pc' = "idle"
               /\ invoked' = invoked
               /\ skipped_now' = skipped_now]_vars

\* a phase before the end of the plan returned failed and left partial files
C9_Witness ==
    /\ outcome = "failed"
    /\ phases[cur].status = "failed"
    /\ written # {}
    /\ cur < plan.to
    /\ \A k \in written : artifacts[k] = NoArtifact

C11_MonotoneRev == [][saves' # saves => rev' > rev]_vars

\* C17: in the phase list build_phases returns, under either value of
\* asr_use_vocals, every required key is provided by a strictly earlier phase,
\* no phase requires a key it provides itself, and the provides-to-requires
\* graph over the phases has no cycle (no phase reaches itself).
C17_RegistryOrder ==
    LET R == DOMAIN registry
        Feeds(i, j) == Range(registry[i].provides) \cap Range(registry[j].requires) # {}
        Reach[n \in Nat] ==
            IF n = 0 THEN {e \in R \X R : Feeds(e[1], e[2])}
            ELSE Reach[n - 1] \cup
                 {e \in R \X R : \E m \in R : <<e[1], m>> \in Reach[n - 1] /\ Feeds(m, e[2])}
    IN  registry # <<>> =>
            /\ \A i \in R : \A k \in Range(registry[i].requires) :
                   \E j \in 1..(i - 1) : k \in Range(registry[j].provides)
            /\ \A i \in R : Range(registry[i].requires) \cap Range(registry[i].provides) = {}
            /\ \A i \in R : <<i, i>> \notin Reach[Len(registry)]

\* C20: the command line exits with a nonzero code if and only if the
\* operation (run or bless) failed for at least one matched video, in
\* single-file and batch mode alike, and in batch mode every matched video is
\* attempted whatever failed before it.
C20_ExitStatus ==
    (cli_pc = "exited" /\ video_paths # {}) =>
        /\ exit_code # 0 <=> op_failed # {}
        /\ is_batch => attempted = video_paths

\* C19: two CalDocs whose segment lists differ (in a segment's id, start_ms,
\* end_ms, text, translated text, speaker or emotion, or in the number or order
\* of segments) have different fingerprints, for field values over an alphabet
\* with '|' and newline: the edited document never has the stored fingerprint.
C19_EditChangesFingerprint ==
    segments # stored => compute_fingerprint(segments) # fingerprint

\* C15: when a cancel request kills the running process of an episode while
\* its stream is open, the stream emits an error event whose message says the
\* run was cancelled.
C15_CancelEvent ==
    \A h \in Streams :
        (handler[h] = "closed" /\ handler_proc[h] \in cancelled) =>
            \E i \in DOMAIN events[h] :
                /\ events[h][i].event = "error"
                /\ events[h][i].message = "Pipeline cancelled"

\* C16: when the process of a stream exits by itself with a nonzero code, the
\* stream emits an error event and then, last, a done event with that code;
\* when it exits with code 0 the last event is done with returncode 0.
C16_DoneAfterExit ==
    [][\A h \in Streams :
          (event_stream_done(h) /\ proc[handler_proc[h]] = "exited") =>
              LET ev == events'[h]
                  rc == returncode[handler_proc[h]]
              IN  /\ ev[Len(ev)] = sse("done", rc, "")
                  /\ rc # 0 => \E i \in 1..(Len(ev) - 1) : ev[i].event = "error"]_vars

C13_BlessOnlyFingerprints ==
    [][\A i \in PhaseIdx :
          (bless_one(i) \/ bless_unchanged(i)) =>
              /\ \A k \in DOMAIN phases[i].artifacts :
                    disk[k] # Absent =>
                        /\ phases'[i].artifacts[k] = hash_path(disk[k])
                        /\ artifacts'[k].fingerprint = hash_path(disk[k])
              /\ invoked' = invoked
              /\ gates' = gates
              /\ disk' = disk
              /\ \A j \in PhaseIdx :
                    /\ phases'[j].status = phases[j].status
                    /\ phases'[j].version = phases[j].version
                    /\ phases'[j].input_fingerprint = phases[j].input_fingerprint
              /\ \A k \in Keys \ DOMAIN phases[i].artifacts :
                    artifacts'[k] = artifacts[k]]_vars

\* C14: after a full run to burn, the file of subs.en_srt is replaced and
\* align is blessed; the following run --to burn invokes exactly tts, mix and
\* burn and skips extract, asr, parse, reseg, mt and align.
C14_BlessAndPropagate ==
    (/\ pc = "idle" /\ outcome = "completed" /\ clean = IndexOf("burn")
     /\ plan.from = 0 /\ runs = MaxRuns
     /\ ext = 1 /\ bumped = {}
     /\ disk["subs.en_srt"] # WarmDisk["subs.en_srt"]
     /\ \A k \in Keys \ {"subs.en_srt"} : k \notin written => disk[k] = WarmDisk[k]
     /\ IndexOf("align") \notin invoked
     /\ phases[IndexOf("align")].artifacts["subs.en_srt"]
            = hash_path(disk["subs.en_srt"])) =>
        /\ invoked = {IndexOf("tts"), IndexOf("mix"), IndexOf("burn")}
        /\ skipped_now = 1..IndexOf("align")

\* C18: `run --from P --to Q` on a workspace where every phase has a succeeded
\* record with matching version and input fingerprint: the force set holds P
\* and every later phase downstream of P, and each of them is invoked.
C18_ForcePropagation ==
    (/\ pc = "idle" /\ outcome = "completed" /\ plan.from # 0
     /\ runs = MaxRuns /\ ext = 0 /\ bumped = {}) =>
        LET D == DownstreamLater({plan.from}, Len(ALL_PHASES)) \cap (plan.first..plan.to)
        IN  /\ D \subseteq plan.force
            /\ D \subseteq invoked

\* C21: for every registered phase with a manifest record the status endpoint
\* has an entry of that name which reports the status, skipped flag and error
\* of the record; an entry of a registered phase reports pending only when the
\* manifest has no record of that phase.
C21_StatusReflectsManifest ==
    /\ \A i \in PhaseIdx :
          phases[i] # NoRecord =>
              \E n \in DOMAIN _read_manifest_phases :
                  LET e == _read_manifest_phases[n]
                  IN  /\ e.name = ALL_PHASES[i].name
                      /\ e.status = phases[i].status
                      /\ e.skipped = phases[i].skipped
                      /\ e.error = phases[i].error
    /\ \A n \in DOMAIN _read_manifest_phases :
          LET e == _read_manifest_phases[n]
          IN  (e.name \in PhaseNames /\ e.status = "pending") =>
                  phases[IndexOf(e.name)] = NoRecord

\* C22: once the record of a phase has status failed, every step leaves it
\* failed, except the commit of an invocation of that phase, which sets it to
\* succeeded.
C22_FailedStaysFailed ==
    [][\A i \in PhaseIdx :
          phases[i].status = "failed" =>
              \/ phases'[i].status = "failed"
              \/ /\ phases'[i].status = "succeeded"
                 /\ pc = "invoke" /\ cur = i]_vars

\* C23 (as stated): a phase implementation is being invoked only when the
\* manifest holds an artifact record for every key of the phase's requires,
\* the first phase of a plan started with --from included; a run stopped by
\* MissingInput has attempted no later phase and the phase is not succeeded.
C23_MissingInput ==
    /\ pc = "invoke" => MissingInputs(cur) = {}
    /\ outcome = "missing_input" =>
          /\ pc = "idle"
          /\ MissingInputs(cur) # {}
          /\ \A j \in cur..plan.to : j \notin invoked \cup skipped_now
          /\ phases[cur].status # "succeeded"

\* C23 (amended): the same for every phase that is not the first of its plan;
\* the first phase of a plan is not checked.
C23_MissingInputNotFirst ==
    /\ (pc = "invoke" /\ cur # plan.first) => MissingInputs(cur) = {}
    /\ outcome = "missing_input" =>
          /\ pc = "idle"
          /\ cur # plan.first
          /\ MissingInputs(cur) # {}
          /\ \A j \in cur..plan.to : j \notin invoked \cup skipped_now
          /\ phases[cur].status # "succeeded"

\* a run stopped with MissingInput at a phase after the first of its plan
C23_Witness ==
    /\ outcome = "missing_input"
    /\ cur > plan.first
    /\ plan.first \in invoked \cup skipped_now

\* C24: after every save of the CalDoc by any writer the fingerprint.value
\* stored in the file equals compute_fingerprint of the segments stored in the
\* same file.
C24_EmbeddedFingerprint ==
    file.exists => file.fingerprint = compute_fingerprint(file.segments)

\* the file after the producer phase, an editor save, a reseg split and align
\* have written it in turn
C24_Witness ==
    /\ file.exists
    /\ writes = MaxWrites
    /\ \E i \in DOMAIN file.segments : file.segments[i].id \in GenIds
    /\ \E i \in DOMAIN file.segments : file.segments[i].overlap
    /\ \A i \in DOMAIN file.segments : file.segments[i].text_en # <<>>
    /\ file.fingerprint = compute_fingerprint(file.segments)

\* C25: a reseg run keeps every segment id of the CalDoc, an editor save keeps
\* every id the editor did not remove, and no two segments of the CalDoc have
\* the same id.
C25_StableUniqueIds ==
    [][/\ ResegPhase_save => Ids(file.segments) \subseteq Ids(file'.segments)
       /\ put_asr_model_save =>
              (Ids(file.segments) \cap Ids(client.segments)) \subseteq Ids(file'.segments)
       /\ Cardinality(Ids(file'.segments)) = Len(file'.segments)]_vars

\* C26: in the saved CalDoc a segment's flags.overlap is true exactly when,
\* with the segments ordered by start_ms, it starts before its predecessor
\* ends or ends after its successor starts.
C26_OverlapFlags ==
    file.exists =>
        LET segs == file.segments
            before(j, i) == \/ segs[j].start_ms < segs[i].start_ms
                            \/ segs[j].start_ms = segs[i].start_ms /\ j < i
            next_to(j, i) == /\ before(j, i)
                             /\ ~\E k \in DOMAIN segs : before(j, k) /\ before(k, i)
        IN  \A i \in DOMAIN segs :
                segs[i].overlap <=>
                    \/ \E j \in DOMAIN segs :
                          next_to(j, i) /\ segs[i].start_ms < segs[j].end_ms
                    \/ \E j \in DOMAIN segs :
                          next_to(i, j) /\ segs[i].end_ms > segs[j].start_ms

C30_DeclaredInputs ==
    (pc = "invoke" /\ MissingInputs(cur) = {})
        => InputLookups(cur, Requires(cur)) \subseteq Requires(cur)

\* C27: within one stream the log events of the runner's lines come in the
\* order the runner wrote them; the log event of a line announcing that a
\* registered phase X is running or starting is immediately followed by one
\* phase event named X; and a phase event follows only the log event of a
\* line announcing the phase it names.
C27_EventOrderAndPhase ==
    \A h \in Streams :
        LET ev == events[h]
            logs == SelectSeq(SubSeq(ev, 2, Len(ev)), LAMBDA e : e.event = "log")
            consumed == IF handler_proc[h] = 0 THEN <<>>
                        ELSE SubSeq(stdout[handler_proc[h]], 1, nread[h])
        IN  /\ [i \in DOMAIN logs |-> logs[i].message]
                  = SelectSeq(consumed, LAMBDA r : \E i \in DOMAIN r : r[i] # " ")
            /\ \A i \in DOMAIN ev : \A n \in PhaseNames :
                  (/\ i > 1
                   /\ ev[i].event = "log"
                   /\ ev[i].message \in {Announce(n, running), Announce(n, starting)})
                  => /\ i + 1 \in DOMAIN ev
                     /\ ev[i + 1] = sse("phase", 0, n)
                     /\ (i + 2 \in DOMAIN ev => ev[i + 2].event # "phase")
            /\ \A i \in DOMAIN ev :
                  ev[i].event = "phase"
                  => /\ i > 2
                     /\ ev[i - 1].event = "log"
                     /\ ev[i].message \in PhaseNames
                     /\ ev[i - 1].message \in {Announce(ev[i].message, running),
                                               Announce(ev[i].message, starting)}

\* C28: a runner process started by a run stream that has not exited is the
\* entry of _running under the episode's key; an entry leaves _running only
\* when its own process is no longer running, and never through the cleanup
\* of a stream that spawned another process.
C28_LockCoversLifetime ==
    /\ [](\A h \in Streams :
             (handler_proc[h] # 0 /\ proc[handler_proc[h]] = "live")
                 => _running = handler_proc[h])
    /\ [][\A p \in Procs :
             (_running = p /\ _running' # p)
                 => /\ proc'[p] # "live"
                    /\ \A h \in Streams :
                          (handler[h] # "closed" /\ handler'[h] = "closed")
                              => handler_proc[h] = p]_vars

====
